---- MODULE Spec2Model ----
(***************************************************************************)
(* Model of the bulk parcel tracker component PosTrackingSystem            *)
(* (src/components/PosTrackingSystem.tsx).                                 *)
(*                                                                         *)
(* The component is single threaded: every handler runs to its next await  *)
(* without interruption.  An action of the model is therefore one such     *)
(* run: the synchronous part of a handler, or the continuation that runs   *)
(* when a promise (a lookup, the 1000 ms timer) settles.  Functional state *)
(* updates setResiList(prev => ...) queued in one run are applied in the   *)
(* order they were queued, so a run's updates are composed in that order.  *)
(*                                                                         *)
(* Texts and identifiers are sequences of one-character strings.  A        *)
(* nullable field holds <<>> for null and <<v>> for the value v.           *)
(***************************************************************************)
EXTENDS Integers, Sequences, FiniteSets, Bags, TLC

VARIABLES
    apiKey,       \* API_KEY is configured (fixed for the life of the page)
    resiNumbers,  \* the text of the input area
    resiList,     \* the batch: a sequence of ResiItem records
    isTracking,   \* the batch-in-progress flag
    alertMsg,     \* the message of the last alert() shown, "" when none
    newResiList,  \* processResi's local list, the one its loop iterates over
    i,            \* the loop's index into newResiList (1-based; 0: no loop yet)
    pc,           \* the loop: "idle", "await" (lookup), "pause" (timer), "done"
    issued,       \* identifiers the current loop has called trackResi for
    settled,      \* how many of the loop's lookups have settled
    single,       \* bag of identifiers with a trackSingleResi lookup in flight
    last,         \* the lookup that settled last: <<[resi, resp]>>
    pauses,       \* how many 1000 ms timers the current loop has started
    exported      \* the rows of the sheet written last: <<rows>>

vars == <<apiKey, resiNumbers, resiList, isTracking, alertMsg, newResiList,
          i, pc, issued, settled, single, last, pauses, exported>>

(***************************************************************************)
(* Bounds of the model.                                                    *)
(***************************************************************************)
\* Lookups of trackSingleResi that may be in flight together.
MaxSingle == 1
\* Longest text of the exhaustive parsing specification SpecParse.
MaxTextLen == 5

None == <<>>
Some(v) == <<v>>

(***************************************************************************)
(* Characters and texts.                                                   *)
(***************************************************************************)
NL == "\n"
Alphabet == {"P", "1", ",", NL, " "}

\* The texts the user types in the interleaving specifications: empty, blank,
\* no valid token, one token, a repeated token, and two distinct tokens mixed
\* with both separators, padding and an invalid token ("P, P1\n1").
Inputs ==
    { <<>>,
      <<" ">>,
      <<"1", ",">>,
      <<"P">>,
      <<"P", ",", "P">>,
      <<"P", ",", " ", "P", "1", NL, "1">> }

\* Every text over the alphabet up to MaxTextLen characters.
AllTexts == UNION { [1..n -> Alphabet] : n \in 0..MaxTextLen }

\* The class [\n,] of the split pattern.
IsSeparator(c) == c \in {NL, ","}

\* White space removed by String.prototype.trim.
IsSpace(c) == c \in {" ", NL}

\* text.split(/[\n,]+/): the pieces between maximal runs of separators, the
\* empty pieces before a leading and after a trailing run included.
RECURSIVE SplitFrom(_, _, _, _)
SplitFrom(text, k, cur, acc) ==
    IF k > Len(text) THEN Append(acc, cur)
    ELSE IF IsSeparator(text[k])
         THEN IF k > 1 /\ IsSeparator(text[k - 1])
              THEN SplitFrom(text, k + 1, cur, acc)
              ELSE SplitFrom(text, k + 1, <<>>, Append(acc, cur))
         ELSE SplitFrom(text, k + 1, Append(cur, text[k]), acc)

Split(text) == SplitFrom(text, 1, <<>>, <<>>)

\* r.trim()
RECURSIVE TrimLeft(_)
TrimLeft(s) ==
    IF s # <<>> /\ IsSpace(s[1]) THEN TrimLeft(Tail(s)) ELSE s

RECURSIVE TrimRight(_)
TrimRight(s) ==
    IF s # <<>> /\ IsSpace(s[Len(s)])
    THEN TrimRight(SubSeq(s, 1, Len(s) - 1))
    ELSE s

Trim(s) == TrimRight(TrimLeft(s))

\* Variant of IsValidResi without the prefix test.
MutIsValidResiNoPrefix(r) == Len(r) > 0

\* r.length > 0 && r.startsWith('P')
IsValidResi(r) == Len(r) > 0 /\ r[1] = "P"

MapTrim(tokens) == [k \in DOMAIN tokens |-> Trim(tokens[k])]

\* resiNumbers.split(/[\n,]+/).map(r => r.trim()).filter(...)
ParseResi(text) == SelectSeq(MapTrim(Split(text)), IsValidResi)

\* !resiNumbers.trim()
IsBlank(text) == Trim(text) = <<>>

\* The identifiers the inputs can put into a batch.
Identifiers ==
    UNION { { ParseResi(t)[k] : k \in DOMAIN ParseResi(t) } : t \in Inputs }

(***************************************************************************)
(* The remote service.                                                     *)
(***************************************************************************)
MsgNoKey == "API Key tidak ditemukan"
MsgDefault == "Gagal mengambil data tracking"
MsgHttp500 == "HTTP error! status: 500"

AlertBlank == "Silakan masukkan nomor resi"
AlertNoKey == "API Key tidak ditemukan. Silakan cek konfigurasi environment variables."
AlertNoValid == "Tidak ada nomor resi yang valid"

\* The inner data object of a body: of TrackingData.data, the receiver and the
\* descriptions of the history events, newest first.
Detail == [receiver |-> "Budi", history |-> <<"DELIVERED">>]

\* What fetch and response.json() may deliver: an HTTP failure, or a body with
\* its embedded status and message and, when it reports a parcel, its data.
Responses ==
    { [ok |-> FALSE, status |-> 500, message |-> "", data |-> None],
      [ok |-> TRUE, status |-> 200, message |-> "ok", data |-> Some(Detail)],
      [ok |-> TRUE, status |-> 201, message |-> "created",
       data |-> Some(Detail)],
      [ok |-> TRUE, status |-> 404, message |-> "not found", data |-> None],
      [ok |-> TRUE, status |-> 400, message |-> "", data |-> None] }

\* The values new Date().toISOString() returns: two instants, in either order
\* (the wall clock may be set back between two calls).
Stamps == {1, 2}

\* Variant of TrackResi that accepts the embedded status 200 only.
MutTrackResi201(key, resp) ==
    IF ~key
    THEN [ok |-> FALSE, data |-> None, message |-> MsgNoKey]
    ELSE IF ~resp.ok
    THEN [ok |-> FALSE, data |-> None, message |-> MsgHttp500]
    ELSE IF resp.status # 200
    THEN [ok |-> FALSE, data |-> None,
          message |-> IF resp.message # "" THEN resp.message ELSE MsgDefault]
    ELSE [ok |-> TRUE,
          data |-> Some([status |-> resp.status, message |-> resp.message,
                         data |-> resp.data]),
          message |-> ""]

\* trackResi: the promise's outcome for a response, [ok, data, message].
TrackResi(key, resp) ==
    IF ~key
    THEN [ok |-> FALSE, data |-> None, message |-> MsgNoKey]
    ELSE IF ~resp.ok
    THEN [ok |-> FALSE, data |-> None, message |-> MsgHttp500]
    ELSE IF resp.status # 200 /\ resp.status # 201
    THEN [ok |-> FALSE, data |-> None,
          message |-> IF resp.message # "" THEN resp.message ELSE MsgDefault]
    ELSE [ok |-> TRUE,
          data |-> Some([status |-> resp.status, message |-> resp.message,
                         data |-> resp.data]),
          message |-> ""]

(***************************************************************************)
(* Updates of the batch.                                                   *)
(***************************************************************************)
\* resiArray.map(resi => ({resi, data: null, loading: false, ...}))
FreshItem(resi) ==
    [resi |-> resi, data |-> None, loading |-> FALSE, error |-> None,
     lastUpdated |-> None]

FreshList(tokens) == [k \in DOMAIN tokens |-> FreshItem(tokens[k])]

\* Variant of MarkLoading that marks every record, whatever its identifier.
MutMarkLoadingAll(list, resi) ==
    [k \in DOMAIN list |-> [list[k] EXCEPT !.loading = TRUE, !.error = None]]

\* Variant of MarkLoading that marks the first matching record only.
MutMarkLoadingFirst(list, resi) ==
    [k \in DOMAIN list |->
        IF list[k].resi = resi /\ \A j \in 1..(k - 1) : list[j].resi # resi
        THEN [list[k] EXCEPT !.loading = TRUE, !.error = None]
        ELSE list[k]]

\* Variant of MarkLoading that also clears the payload.
MutMarkLoadingClearsData(list, resi) ==
    [k \in DOMAIN list |->
        IF list[k].resi = resi
        THEN [list[k] EXCEPT !.loading = TRUE, !.error = None,
                             !.data = None]
        ELSE list[k]]

\* prev.map(item => item.resi === resi ? {...item, loading: true, error: null} : item)
MarkLoading(list, resi) ==
    [k \in DOMAIN list |->
        IF list[k].resi = resi
        THEN [list[k] EXCEPT !.loading = TRUE, !.error = None]
        ELSE list[k]]

\* Variant of StoreSuccess that ignores a result for a record that is no
\* longer in progress.
MutStoreSuccessIfLoading(list, resi, data, stamp) ==
    [k \in DOMAIN list |->
        IF list[k].resi = resi /\ list[k].loading
        THEN [list[k] EXCEPT !.data = data, !.loading = FALSE,
                             !.error = None, !.lastUpdated = Some(stamp)]
        ELSE list[k]]

\* Variant of StoreSuccess that adds a record when none matches.
MutStoreSuccessUpsert(list, resi, data, stamp) ==
    IF \E k \in DOMAIN list : list[k].resi = resi
    THEN [k \in DOMAIN list |->
            IF list[k].resi = resi
            THEN [list[k] EXCEPT !.data = data, !.loading = FALSE,
                                 !.error = None, !.lastUpdated = Some(stamp)]
            ELSE list[k]]
    ELSE Append(list, [resi |-> resi, data |-> data, loading |-> FALSE,
                       error |-> None, lastUpdated |-> Some(stamp)])

\* Variant of StoreSuccess that keeps a payload the record already holds.
MutStoreSuccessKeepsOldData(list, resi, data, stamp) ==
    [k \in DOMAIN list |->
        IF list[k].resi = resi
        THEN [list[k] EXCEPT !.data = IF @ # None THEN @ ELSE data,
                             !.loading = FALSE,
                             !.error = None, !.lastUpdated = Some(stamp)]
        ELSE list[k]]

\* prev.map(... {...item, data, loading: false, error: null, lastUpdated} ...)
StoreSuccess(list, resi, data, stamp) ==
    [k \in DOMAIN list |->
        IF list[k].resi = resi
        THEN [list[k] EXCEPT !.data = data, !.loading = FALSE,
                             !.error = None, !.lastUpdated = Some(stamp)]
        ELSE list[k]]

\* Variant of StoreFailure that leaves the payload in place.
MutStoreFailureKeepsData(list, resi, message, stamp) ==
    [k \in DOMAIN list |->
        IF list[k].resi = resi
        THEN [list[k] EXCEPT !.loading = FALSE, !.error = Some(message),
                             !.lastUpdated = Some(stamp)]
        ELSE list[k]]

\* Variant of StoreFailure that does not store the message.
MutStoreFailureNoMessage(list, resi, message, stamp) ==
    [k \in DOMAIN list |->
        IF list[k].resi = resi
        THEN [list[k] EXCEPT !.data = None, !.loading = FALSE,
                             !.lastUpdated = Some(stamp)]
        ELSE list[k]]

\* Variant of StoreFailure that writes the failure to every record.
MutStoreFailureAll(list, resi, message, stamp) ==
    [k \in DOMAIN list |->
        [list[k] EXCEPT !.data = None, !.loading = FALSE,
                        !.error = Some(message),
                        !.lastUpdated = Some(stamp)]]

\* Variant of StoreFailure that leaves the record in progress.
MutStoreFailureKeepsLoading(list, resi, message, stamp) ==
    [k \in DOMAIN list |->
        IF list[k].resi = resi
        THEN [list[k] EXCEPT !.data = None, !.error = Some(message),
                             !.lastUpdated = Some(stamp)]
        ELSE list[k]]

\* prev.map(... {...item, data: null, loading: false, error: message, lastUpdated} ...)
StoreFailure(list, resi, message, stamp) ==
    [k \in DOMAIN list |->
        IF list[k].resi = resi
        THEN [list[k] EXCEPT !.data = None, !.loading = FALSE,
                             !.error = Some(message),
                             !.lastUpdated = Some(stamp)]
        ELSE list[k]]

\* The try/catch around await trackResi(resi): the batch after the outcome.
StoreOutcome(list, resi, out, stamp) ==
    IF out.ok
    THEN StoreSuccess(list, resi, out.data, stamp)
    ELSE StoreFailure(list, resi, out.message, stamp)

(***************************************************************************)
(* The counters of the summary cards, computed from the batch on every     *)
(* render.                                                                 *)
(***************************************************************************)
\* item.data?.status === 200
Successful(item) == item.data # None /\ item.data[1].status = 200

\* Variant of Failed that counts the records with an error message only.
MutFailedErrorOnly(item) == item.error # None /\ item.error[1] # ""

\* item.data?.status !== 200 || item.error
Failed(item) ==
    \/ item.data = None
    \/ item.data[1].status # 200
    \/ item.error # None /\ item.error[1] # ""

successfulTrackings ==
    Cardinality({k \in DOMAIN resiList : Successful(resiList[k])})

failedTrackings ==
    Cardinality({k \in DOMAIN resiList : Failed(resiList[k])})

(***************************************************************************)
(* Initial state: the component as mounted.                                *)
(***************************************************************************)
Init ==
    /\ apiKey \in BOOLEAN
    /\ resiNumbers = <<>>
    /\ resiList = <<>>
    /\ isTracking = FALSE
    /\ alertMsg = ""
    /\ newResiList = <<>>
    /\ i = 0
    /\ pc = "idle"
    /\ issued = <<>>
    /\ settled = 0
    /\ single = EmptyBag
    /\ last = None
    /\ pauses = 0
    /\ exported = None

(***************************************************************************)
(* Handlers.                                                               *)
(***************************************************************************)
\* onChange of the input area.
SetInput ==
    \E t \in Inputs :
        /\ t # resiNumbers
        /\ resiNumbers' = t
        /\ UNCHANGED <<apiKey, resiList, isTracking, alertMsg, newResiList,
                       i, pc, issued, settled, single, last,
                       pauses, exported>>

\* A precondition failure of a handler: alert(msg) and return.
Reject(msg) ==
    /\ alertMsg' = msg
    /\ UNCHANGED <<apiKey, resiNumbers, resiList, isTracking, newResiList,
                   i, pc, issued, settled, single, last,
                   pauses, exported>>

\* The head of one loop iteration, up to its await: mark the k-th record of
\* the loop's list in progress in the batch `list` and call trackResi.
LoopIssue(list, items, k) ==
    /\ resiList' = MarkLoading(list, items[k].resi)
    /\ issued' = Append(IF k = 1 THEN <<>> ELSE issued, items[k].resi)
    /\ i' = k
    /\ pc' = "await"

\* Variant of ProcessResi without the credential check.
MutProcessResiNoKeyCheck ==
    IF IsBlank(resiNumbers) THEN Reject(AlertBlank)
    ELSE IF ParseResi(resiNumbers) = <<>> THEN Reject(AlertNoValid)
    ELSE /\ newResiList' = FreshList(ParseResi(resiNumbers))
         /\ isTracking' = TRUE
         /\ settled' = 0
         /\ pauses' = 0
         /\ LoopIssue(newResiList', newResiList', 1)
         /\ UNCHANGED <<apiKey, resiNumbers, alertMsg, single, last,
                        exported>>

\* processResi, from its call to its first await.
ProcessResi ==
    IF IsBlank(resiNumbers) THEN Reject(AlertBlank)
    ELSE IF ~apiKey THEN Reject(AlertNoKey)
    ELSE IF ParseResi(resiNumbers) = <<>> THEN Reject(AlertNoValid)
    ELSE /\ newResiList' = FreshList(ParseResi(resiNumbers))
         /\ isTracking' = TRUE
         /\ settled' = 0
         /\ pauses' = 0
         /\ LoopIssue(newResiList', newResiList', 1)
         /\ UNCHANGED <<apiKey, resiNumbers, alertMsg, single, last,
                        exported>>

\* Variant of ClickProcess whose button stays enabled during a batch.
MutClickProcessNoGuard ==
    /\ apiKey
    /\ ProcessResi

\* The submit button: disabled={isTracking || !API_KEY}.
ClickProcess ==
    /\ ~isTracking
    /\ apiKey
    /\ ProcessResi

\* Variant of LoopSettle that never clears the flag.
MutLoopSettleKeepsFlag ==
    /\ pc = "await"
    /\ \E resp \in Responses, stamp \in Stamps :
        /\ resiList' = StoreOutcome(resiList, newResiList[i].resi,
                                    TrackResi(apiKey, resp), stamp)
        /\ last' = Some([resi |-> newResiList[i].resi,
                         resp |-> resp])
    /\ settled' = settled + 1
    /\ pc' = IF i < Len(newResiList) THEN "pause" ELSE "done"
    /\ pauses' = IF i < Len(newResiList) THEN pauses + 1 ELSE pauses
    /\ UNCHANGED <<apiKey, resiNumbers, isTracking, alertMsg, newResiList,
                   i, issued, single,
                   exported>>

\* Variant of LoopSettle that starts the timer after the last record too.
MutLoopSettlePausesAfterLast ==
    /\ pc = "await"
    /\ \E resp \in Responses, stamp \in Stamps :
        /\ resiList' = StoreOutcome(resiList, newResiList[i].resi,
                                    TrackResi(apiKey, resp), stamp)
        /\ last' = Some([resi |-> newResiList[i].resi,
                         resp |-> resp])
    /\ settled' = settled + 1
    /\ pauses' = pauses + 1
    /\ IF i < Len(newResiList)
       THEN pc' = "pause" /\ isTracking' = isTracking
       ELSE pc' = "done" /\ isTracking' = FALSE
    /\ UNCHANGED <<apiKey, resiNumbers, alertMsg, newResiList, i, issued,
                   single, exported>>

\* processResi resumes after await trackResi(resi): store the outcome, then
\* either start the pause or leave the loop and clear the flag.
LoopSettle ==
    /\ pc = "await"
    /\ \E resp \in Responses, stamp \in Stamps :
        /\ resiList' = StoreOutcome(resiList, newResiList[i].resi,
                                    TrackResi(apiKey, resp), stamp)
        /\ last' = Some([resi |-> newResiList[i].resi,
                         resp |-> resp])
    /\ settled' = settled + 1
    /\ IF i < Len(newResiList)
       THEN pc' = "pause" /\ isTracking' = isTracking
                          /\ pauses' = pauses + 1
       ELSE pc' = "done" /\ isTracking' = FALSE /\ pauses' = pauses
    /\ UNCHANGED <<apiKey, resiNumbers, alertMsg, newResiList, i, issued,
                   single,
                   exported>>

\* Variant of LoopWake that does not wait for the lookup in flight.
MutLoopWakeNoAwait ==
    /\ pc \in {"await", "pause"}
    /\ i < Len(newResiList)
    /\ LoopIssue(resiList, newResiList, i + 1)
    /\ UNCHANGED <<apiKey, resiNumbers, isTracking, alertMsg, newResiList,
                   settled, single, last,
                   pauses, exported>>

\* The 1000 ms timer fires: the next iteration, up to its await.
LoopWake ==
    /\ pc = "pause"
    /\ LoopIssue(resiList, newResiList, i + 1)
    /\ UNCHANGED <<apiKey, resiNumbers, isTracking, alertMsg, newResiList,
                   settled, single, last,
                   pauses, exported>>

\* Variant of TrackSingleResi that raises the batch flag.
MutTrackSingleResiSetsFlag(resi) ==
    IF ~apiKey THEN Reject(MsgNoKey)
    ELSE /\ resiList' = MarkLoading(resiList, resi)
         /\ single' = single (+) SetToBag({resi})
         /\ isTracking' = TRUE
         /\ UNCHANGED <<apiKey, resiNumbers, alertMsg,
                        newResiList, i, pc, issued, settled, last,
                        pauses, exported>>

\* trackSingleResi(resi), from its call to its await.
TrackSingleResi(resi) ==
    IF ~apiKey THEN Reject(MsgNoKey)
    ELSE /\ resiList' = MarkLoading(resiList, resi)
         /\ single' = single (+) SetToBag({resi})
         /\ UNCHANGED <<apiKey, resiNumbers, isTracking, alertMsg,
                        newResiList, i, pc, issued, settled, last,
                        pauses, exported>>

\* The refresh button of a record: disabled={item.loading || !API_KEY}.
ClickRefresh ==
    \E k \in DOMAIN resiList :
        /\ ~resiList[k].loading
        /\ apiKey
        /\ BagCardinality(single) < MaxSingle
        /\ TrackSingleResi(resiList[k].resi)

\* trackSingleResi resumes after await trackResi(resi).
SingleSettle ==
    \E resi \in BagToSet(single), resp \in Responses, stamp \in Stamps :
        /\ resiList' = StoreOutcome(resiList, resi, TrackResi(apiKey, resp),
                                    stamp)
        /\ single' = single (-) SetToBag({resi})
        /\ last' = Some([resi |-> resi, resp |-> resp])
        /\ UNCHANGED <<apiKey, resiNumbers, isTracking, alertMsg,
                       newResiList, i, pc, issued, settled,
                       pauses, exported>>

\* Variant of ClearAll that also stops the loop.
MutClearAllCancels ==
    /\ Len(resiList) > 0
    /\ resiList' = <<>>
    /\ resiNumbers' = <<>>
    /\ isTracking' = FALSE
    /\ pc' = IF pc = "idle" THEN "idle" ELSE "done"
    /\ UNCHANGED <<apiKey, alertMsg, newResiList, i, issued, settled,
                   single, last,
                   pauses, exported>>

\* clearAll; its button is rendered when resiList.length > 0.
ClearAll ==
    /\ Len(resiList) > 0
    /\ resiList' = <<>>
    /\ resiNumbers' = <<>>
    /\ UNCHANGED <<apiKey, isTracking, alertMsg, newResiList, i, pc, issued,
                   settled, single, last,
                   pauses, exported>>

Next ==
    \/ SetInput
    \/ ClickProcess
    \/ LoopSettle
    \/ LoopWake
    \/ ClickRefresh
    \/ SingleSettle
    \/ ClearAll

Spec == Init /\ [][Next]_vars

(***************************************************************************)
(* The handlers called directly, as the operations submit and refreshOne   *)
(* of the specification, without the buttons' disabled attributes.  The    *)
(* model holds one loop, so a call that would start a second loop while    *)
(* one is running is left out.                                             *)
(***************************************************************************)
CallProcess ==
    /\ isTracking =>
          \/ IsBlank(resiNumbers)
          \/ ~apiKey
          \/ ParseResi(resiNumbers) = <<>>
    /\ ProcessResi

CallRefresh ==
    \E resi \in Identifiers :
        /\ BagCardinality(single) < MaxSingle
        /\ TrackSingleResi(resi)

NextCall ==
    \/ SetInput
    \/ CallProcess
    \/ LoopSettle
    \/ LoopWake
    \/ CallRefresh
    \/ SingleSettle
    \/ ClearAll

SpecCall == Init /\ [][NextCall]_vars

(***************************************************************************)
(* The loop under the scheduling the host gives it: a lookup that settles  *)
(* resumes the loop, and the timer fires.                                  *)
(***************************************************************************)
SpecLive == Spec /\ WF_vars(LoopSettle) /\ WF_vars(LoopWake)

(***************************************************************************)
(* The component when every lookup resolves: the promise of the loop's     *)
(* lookup settles, and so does that of each trackSingleResi lookup.  The   *)
(* text is typed once, before the first submit, and submitted any number   *)
(* of times.                                                               *)
(***************************************************************************)
InitResolve ==
    /\ apiKey = TRUE
    /\ resiNumbers \in Inputs
    /\ resiList = <<>>
    /\ isTracking = FALSE
    /\ alertMsg = ""
    /\ newResiList = <<>>
    /\ i = 0
    /\ pc = "idle"
    /\ issued = <<>>
    /\ settled = 0
    /\ single = EmptyBag
    /\ last = None
    /\ pauses = 0
    /\ exported = None

NextResolve ==
    \/ ClickProcess
    \/ LoopSettle
    \/ LoopWake
    \/ ClickRefresh
    \/ SingleSettle
    \/ ClearAll

\* trackSingleResi resumes after its lookup of resi.
SingleSettleOf(resi) == SingleSettle /\ last'[1].resi = resi

SpecResolve ==
    /\ InitResolve
    /\ [][NextResolve]_vars
    /\ WF_vars(LoopSettle)
    /\ \A resi \in Identifiers : WF_vars(SingleSettleOf(resi))

(***************************************************************************)
(* processResi on every text up to MaxTextLen characters, from the mounted *)
(* component and from the state a finished one-record batch leaves.        *)
(***************************************************************************)
DoneResponse ==
    [ok |-> TRUE, status |-> 200, message |-> "ok", data |-> Some(Detail)]

DoneBatch ==
    StoreOutcome(FreshList(<<<<"P">>>>), <<"P">>,
                 TrackResi(TRUE, DoneResponse), 1)

InitParse ==
    /\ apiKey = TRUE
    /\ resiNumbers \in AllTexts
    /\ isTracking = FALSE
    /\ alertMsg = ""
    /\ single = EmptyBag
    /\ pauses = 0
    /\ exported = None
    /\ \/ /\ resiList = <<>>
          /\ newResiList = <<>>
          /\ i = 0
          /\ pc = "idle"
          /\ issued = <<>>
          /\ settled = 0
          /\ last = None
       \/ /\ resiList = DoneBatch
          /\ newResiList = FreshList(<<<<"P">>>>)
          /\ i = 1
          /\ pc = "done"
          /\ issued = <<<<"P">>>>
          /\ settled = 1
          /\ last = Some([resi |-> <<"P">>,
                          resp |-> DoneResponse])

NextParse == ClickProcess

SpecParse == InitParse /\ [][NextParse]_vars

(***************************************************************************)
(* trackSingleResi called again after it has completed: the states a       *)
(* finished batch is in when a first refresh of one of its records has     *)
(* completed (every stamp so far is 1), and from there only refreshes.     *)
(***************************************************************************)
\* The batch after the loop has looked up tokens[k], tokens[k+1], ...
RECURSIVE SettleAll(_, _, _)
SettleAll(list, tokens, k) ==
    IF k > Len(tokens) THEN list
    ELSE SettleAll(StoreOutcome(MarkLoading(list, tokens[k]), tokens[k],
                                TrackResi(TRUE, DoneResponse), 1),
                   tokens, k + 1)

InitTwice ==
    /\ apiKey = TRUE
    /\ isTracking = FALSE
    /\ alertMsg = ""
    /\ single = EmptyBag
    /\ pc = "done"
    /\ exported = None
    /\ \E t \in Inputs, resp \in Responses :
        /\ ParseResi(t) # <<>>
        /\ pauses = Len(ParseResi(t)) - 1
        /\ resiNumbers = t
        /\ newResiList = FreshList(ParseResi(t))
        /\ issued = ParseResi(t)
        /\ i = Len(ParseResi(t))
        /\ settled = Len(ParseResi(t))
        /\ \E k \in DOMAIN ParseResi(t) :
            /\ resiList =
                 StoreOutcome(
                    MarkLoading(SettleAll(FreshList(ParseResi(t)),
                                          ParseResi(t), 1),
                                ParseResi(t)[k]),
                    ParseResi(t)[k], TrackResi(TRUE, resp), 1)
            /\ last = Some([resi |-> ParseResi(t)[k], resp |-> resp])

NextTwice ==
    \/ ClickRefresh
    \/ SingleSettle

SpecTwice == InitTwice /\ [][NextTwice]_vars

(***************************************************************************)
(* The component when no refresh is started during a batch: a lookup of    *)
(* trackSingleResi in flight while the flag is up was then issued before   *)
(* the submit that started the batch.                                      *)
(***************************************************************************)
ClickRefreshIdle ==
    /\ ~isTracking
    /\ ClickRefresh

NextStale ==
    \/ SetInput
    \/ ClickProcess
    \/ LoopSettle
    \/ LoopWake
    \/ ClickRefreshIdle
    \/ SingleSettle
    \/ ClearAll

SpecStale == Init /\ [][NextStale]_vars

(***************************************************************************)
(* exportToExcel.  The sheet is modelled by its rows: the identifier, the  *)
(* receiver, the latest history description and the error message.  The    *)
(* handler is applied to batches of up to MaxRows records a loop has left  *)
(* or is pausing on, the lookups having returned any of ExportResponses.   *)
(***************************************************************************)
MaxRows == 2

Placeholder == "-"
MsgNoData == "Data tidak ditemukan"

\* The bodies the rows distinguish: those of Responses, a body with status
\* 200 and no data object, and one whose history is empty.
ExportResponses ==
    Responses \cup
    { [ok |-> TRUE, status |-> 200, message |-> "ok", data |-> None],
      [ok |-> TRUE, status |-> 200, message |-> "ok",
       data |-> Some([receiver |-> "Budi", history |-> <<>>])] }

\* Variant of ExportRow whose error rows always carry the default message.
MutExportRowDefaultMessage(item) ==
    IF \/ item.data = None
       \/ item.data[1].data = None
       \/ item.data[1].status # 200
    THEN [noResi |-> item.resi,
          penerima |-> Placeholder,
          statusTerakhir |-> Placeholder,
          pesanError |-> MsgNoData]
    ELSE [noResi |-> item.resi,
          penerima |-> item.data[1].data[1].receiver,
          statusTerakhir |->
              IF Len(item.data[1].data[1].history) > 0
              THEN item.data[1].data[1].history[1]
              ELSE Placeholder,
          pesanError |-> ""]

\* The row of one record: the callback of resiList.map.
ExportRow(item) ==
    IF \/ item.data = None
       \/ item.data[1].data = None
       \/ item.data[1].status # 200
    THEN [noResi |-> item.resi,
          penerima |-> Placeholder,
          statusTerakhir |-> Placeholder,
          pesanError |-> IF item.error # None /\ item.error[1] # ""
                         THEN item.error[1]
                         ELSE MsgNoData]
    ELSE [noResi |-> item.resi,
          penerima |-> item.data[1].data[1].receiver,
          statusTerakhir |->
              IF Len(item.data[1].data[1].history) > 0
              THEN item.data[1].data[1].history[1]
              ELSE Placeholder,
          pesanError |-> ""]

ExportRows(list) == [k \in DOMAIN list |-> ExportRow(list[k])]

\* exportToExcel: the rows are written to the sheet; no state of the
\* component is set.
ExportToExcel ==
    /\ exported' = Some(ExportRows(resiList))
    /\ UNCHANGED <<apiKey, resiNumbers, resiList, isTracking, alertMsg,
                   newResiList, i, pc, issued, settled, single, last,
                   pauses>>

\* The batch after the loop over tokens has stored the outcomes f[1..n].
RECURSIVE SettleEach(_, _, _, _)
SettleEach(list, tokens, f, n) ==
    IF n = 0 THEN list
    ELSE StoreOutcome(MarkLoading(SettleEach(list, tokens, f, n - 1),
                                  tokens[n]),
                      tokens[n], TrackResi(TRUE, f[n]), 1)

TokenLists == UNION {[1..n -> Identifiers] : n \in 1..MaxRows}

InitExport ==
    /\ apiKey = TRUE
    /\ resiNumbers = <<>>
    /\ alertMsg = ""
    /\ single = EmptyBag
    /\ exported = None
    /\ \/ /\ resiList = <<>>
          /\ newResiList = <<>>
          /\ isTracking = FALSE
          /\ i = 0
          /\ pc = "idle"
          /\ issued = <<>>
          /\ settled = 0
          /\ pauses = 0
          /\ last = None
       \/ \E tokens \in TokenLists :
          \E n \in 1..Len(tokens) :
          \E f \in [1..n -> ExportResponses] :
             /\ resiList = SettleEach(FreshList(tokens), tokens, f, n)
             /\ newResiList = FreshList(tokens)
             /\ isTracking = (n < Len(tokens))
             /\ i = n
             /\ pc = IF n < Len(tokens) THEN "pause" ELSE "done"
             /\ issued = SubSeq(tokens, 1, n)
             /\ settled = n
             /\ pauses = IF n < Len(tokens) THEN n ELSE n - 1
             /\ last = Some([resi |-> tokens[n], resp |-> f[n]])

NextExport == ExportToExcel

SpecExport == InitExport /\ [][NextExport]_vars

(***************************************************************************)
(* Vocabulary of the properties.                                           *)
(***************************************************************************)
HasData(item) == item.data # None
HasError(item) == item.error # None
Loading == { k \in DOMAIN resiList : resiList[k].loading }
Running == pc \in {"await", "pause"}
LoopInFlight == Len(issued) - settled
ResiOf(items) == [k \in DOMAIN items |-> items[k].resi]

\* A response that trackResi turns into a thrown error.
IsFailure(resp) == ~resp.ok \/ resp.status \notin {200, 201}

\* The message of that error.
FailureMessage(resp) ==
    IF ~resp.ok THEN "HTTP error! status: 500"
    ELSE IF resp.message = "" THEN "Gagal mengambil data tracking"
    ELSE resp.message

\* A step in which the loop's lookup, or a trackSingleResi lookup, settles.
LoopSettles == settled' = settled + 1
SingleSettles == BagCardinality(single') < BagCardinality(single)

(***************************************************************************)
(* C1: no record ever holds a result payload and an error message at the   *)
(* same time, whatever the interleaving of submit, the loop's steps,       *)
(* refreshOne and clearAll.                                                *)
(***************************************************************************)
C1_DataErrorExclusive ==
    \A k \in DOMAIN resiList :
        ~(HasData(resiList[k]) /\ HasError(resiList[k]))

\* A record that holds a payload while the loop runs, a refresh lookup is in
\* flight and another record holds an error.
C1_Witness ==
    /\ isTracking
    /\ single # EmptyBag
    /\ \E k \in DOMAIN resiList : HasData(resiList[k])
    /\ \E k \in DOMAIN resiList : HasError(resiList[k])

(***************************************************************************)
(* C2: once the loop has processed every record and finished, every record *)
(* with no lookup in progress holds exactly one of payload and error.      *)
(***************************************************************************)
C2_ExactlyOneAfterBatch ==
    pc = "done" =>
        \A k \in DOMAIN resiList :
            ~resiList[k].loading =>
                (HasData(resiList[k]) # HasError(resiList[k]))

\* A finished batch of two records, one with an error and one with a payload.
C2_Witness ==
    /\ pc = "done"
    /\ Len(resiList) = 2
    /\ HasError(resiList[1]) /\ ~resiList[1].loading
    /\ HasData(resiList[2]) /\ ~resiList[2].loading

(***************************************************************************)
(* C3, as stated: while isTracking is true at most one record of the batch *)
(* has loading = true.                                                     *)
(***************************************************************************)
C3_AtMostOneLoading ==
    isTracking => Cardinality(Loading) <= 1

(***************************************************************************)
(* C3, amended: while isTracking is true and no refreshOne lookup is in    *)
(* flight, every record with loading = true carries the identifier the     *)
(* loop is looking up, so at most one identifier is in progress (on        *)
(* several records when the list repeats it).                              *)
(***************************************************************************)
C3_OneIdentifierLoading ==
    (isTracking /\ single = EmptyBag) =>
        \A k \in Loading :
            /\ pc = "await"
            /\ resiList[k].resi = newResiList[i].resi

\* The loop's lookup for a repeated identifier: two records in progress.
C3_Witness ==
    /\ isTracking
    /\ single = EmptyBag
    /\ Cardinality(Loading) = 2

(***************************************************************************)
(* C4: isTracking is true exactly from the start of a loop until its last  *)
(* record has been resolved and false otherwise, and no step of refreshOne *)
(* (its start or its completion) changes the flag.                         *)
(***************************************************************************)
C4_FlagTracksLoop ==
    /\ [](isTracking <=> Running)
    /\ [](isTracking <=> settled < Len(newResiList))
    /\ [][single' # single => isTracking' = isTracking]_vars

\* A loop has finished, the flag is down, and a refresh is in flight.
C4_Witness ==
    /\ pc = "done"
    /\ ~isTracking
    /\ single # EmptyBag
    /\ Loading # {}

(***************************************************************************)
(* C5: the loop calls the lookup once per record of its list, in the       *)
(* list's order, and only when the previous lookup has settled: it never   *)
(* has two lookups in flight.                                              *)
(***************************************************************************)
C5_SequentialLookups ==
    /\ LoopInFlight \in {0, 1}
    /\ (LoopInFlight = 1) <=> (pc = "await")
    /\ Len(issued) <= Len(newResiList)
    /\ issued = SubSeq(ResiOf(newResiList), 1, Len(issued))
    /\ Running => Len(issued) = i
    /\ pc = "done" => issued = ResiOf(newResiList)

\* A finished loop over two different identifiers.
C5_Witness ==
    /\ pc = "done"
    /\ Len(issued) = 2
    /\ issued[1] # issued[2]
    /\ settled = 2

(***************************************************************************)
(* The tokens of a text, stated by position: a segment is a maximal run of *)
(* characters other than comma and newline; its token is the segment       *)
(* without the blanks around it; the token counts when it begins with P.   *)
(***************************************************************************)
IsComma(c) == c = "," \/ c = "\n"

Segments(text) ==
    { s \in (1..Len(text)) \X (1..Len(text)) :
        /\ s[1] <= s[2]
        /\ \A j \in s[1]..s[2] : ~IsComma(text[j])
        /\ s[1] = 1 \/ IsComma(text[s[1] - 1])
        /\ s[2] = Len(text) \/ IsComma(text[s[2] + 1]) }

Inked(text, s) == { j \in s[1]..s[2] : text[j] # " " }
FirstInk(text, s) == CHOOSE j \in Inked(text, s) : \A m \in Inked(text, s) : j <= m
LastInk(text, s) == CHOOSE j \in Inked(text, s) : \A m \in Inked(text, s) : j >= m
TokenAt(text, s) == SubSeq(text, FirstInk(text, s), LastInk(text, s))

ValidSegments(text) ==
    { s \in Segments(text) :
        Inked(text, s) # {} /\ text[FirstInk(text, s)] = "P" }

RankOf(text, s) ==
    1 + Cardinality({ t \in ValidSegments(text) : t[1] < s[1] })

\* A step in which processResi accepts the text and starts its loop.
SubmitStarts == ~isTracking /\ isTracking'

(***************************************************************************)
(* C6: with the credential present, a text with at least one valid token   *)
(* is never rejected, and submit replaces the batch with one record per    *)
(* token that is non-empty after trimming and begins with P, in the order  *)
(* of the text and without deduplication, each created with loading =      *)
(* false, data = null, error = null and lastUpdated = null.                *)
(***************************************************************************)
C6_OneRecordPerToken ==
    /\ [](alertMsg # "" => ValidSegments(resiNumbers) = {})
    /\ [][SubmitStarts =>
            /\ Len(newResiList') = Cardinality(ValidSegments(resiNumbers))
            /\ \A s \in ValidSegments(resiNumbers) :
                 newResiList'[RankOf(resiNumbers, s)] =
                    [resi |-> TokenAt(resiNumbers, s), data |-> None,
                     loading |-> FALSE, error |-> None, lastUpdated |-> None]
            /\ Len(resiList') = Len(newResiList')
            /\ \A k \in DOMAIN resiList' :
                 /\ resiList'[k].resi = newResiList'[k].resi
                 /\ resiList'[k].data = None
                 /\ resiList'[k].error = None
                 /\ resiList'[k].lastUpdated = None]_vars

\* The text "P\n1,P" replaced a finished batch by two records with the same
\* identifier, its invalid token dropped.
C6_Witness ==
    /\ resiNumbers = <<"P", "\n", "1", ",", "P">>
    /\ isTracking
    /\ last # None
    /\ Len(resiList) = 2
    /\ resiList[1].resi = <<"P">>
    /\ resiList[2].resi = <<"P">>

(***************************************************************************)
(* C7: an operation rejected by a precondition (submit with a blank text,  *)
(* with no valid token or without the credential, refreshOne without the   *)
(* credential) issues no lookup and leaves the batch and the flag          *)
(* unchanged; no loop starts and no lookup is issued without the           *)
(* credential or from a text without a valid token.                        *)
(***************************************************************************)
C7_RejectionChangesNothing ==
    /\ [][alertMsg' # alertMsg =>
            UNCHANGED <<resiList, isTracking, resiNumbers, newResiList, i,
                        pc, issued, settled, single, last>>]_vars
    /\ [][SubmitStarts =>
            apiKey /\ ValidSegments(resiNumbers) # {}]_vars
    /\ [][~apiKey => (issued' = issued /\ single' = single
                      /\ resiList' = resiList
                      /\ isTracking' = isTracking)]_vars

\* A submit without a valid token was rejected while the batch held records
\* and lookups were in flight.
C7_Witness ==
    /\ alertMsg = "Tidak ada nomor resi yang valid"
    /\ Len(resiList) > 0
    /\ isTracking
    /\ single # EmptyBag

C9_OutcomeStored ==
    [][(LoopSettles \/ SingleSettles) =>
        \A k \in DOMAIN resiList' :
            resiList'[k].resi = last'[1].resi =>
                /\ ~resiList'[k].loading
                /\ resiList'[k].lastUpdated # None
                /\ IF IsFailure(last'[1].resp)
                   THEN /\ resiList'[k].data = None
                        /\ resiList'[k].error =
                              Some(FailureMessage(last'[1].resp))
                   ELSE /\ resiList'[k].data =
                              Some([status |-> last'[1].resp.status,
                                    message |-> last'[1].resp.message,
                                    data |-> last'[1].resp.data])
                        /\ resiList'[k].error = None]_vars

\* Status 404 with message "not found" has just been stored on a record.
C9_Witness ==
    /\ last # None
    /\ last[1].resp.status = 404
    /\ \E k \in DOMAIN resiList :
        /\ resiList[k].resi = last[1].resi
        /\ resiList[k].error = Some("not found")
        /\ resiList[k].data = None
        /\ ~resiList[k].loading

(***************************************************************************)
(* C10: a started loop runs to completion.  While it runs no step changes  *)
(* its list, moves it backwards or ends it early, and, every lookup        *)
(* settling and the timer firing, it ends with every record of its list    *)
(* looked up and the flag cleared.                                         *)
(***************************************************************************)
C10_RunsToCompletion ==
    /\ Running ~> (/\ pc = "done"
                   /\ ~isTracking
                   /\ settled = Len(newResiList)
                   /\ issued = ResiOf(newResiList))
    /\ [][Running =>
            /\ newResiList' = newResiList
            /\ i' >= i
            /\ settled' >= settled
            /\ Len(issued') >= Len(issued)
            /\ pc' \in {"await", "pause", "done"}
            /\ pc' = "done" => settled' = Len(newResiList)]_vars

\* The loop issued its second lookup although clearAll emptied the batch,
\* the input was edited and a refresh is in flight.
C10_Witness ==
    /\ pc = "await"
    /\ i = 2
    /\ resiList = <<>>
    /\ resiNumbers # <<>>
    /\ single # EmptyBag

(***************************************************************************)
(* Vocabulary of the properties about single lookups.                      *)
(***************************************************************************)
\* A step in which trackSingleResi issues its lookup, or the loop issues one.
SingleStarts == BagCardinality(single') > BagCardinality(single)
LoopIssues == issued' # issued \/ SubmitStarts

\* The record holds what the response gives, and nothing else.
Reflects(item, resp) ==
    /\ ~item.loading
    /\ IF IsFailure(resp)
       THEN item.data = None /\ item.error = Some(FailureMessage(resp))
       ELSE /\ item.data # None
            /\ item.data[1].status = resp.status
            /\ item.data[1].message = resp.message
            /\ item.error = None

\* What a step of trackSingleResi for the identifier r may not touch: the
\* records with another identifier, the order and number of records, the
\* flag, and the loop (no lookup of the loop, no timer).
RefreshFrame(r) ==
    /\ Len(resiList') = Len(resiList)
    /\ \A k \in DOMAIN resiList :
        /\ resiList'[k].resi = resiList[k].resi
        /\ resiList[k].resi # r => resiList'[k] = resiList[k]
    /\ isTracking' = isTracking
    /\ UNCHANGED <<newResiList, i, pc, issued, settled>>

(***************************************************************************)
(* C11: refreshOne(identifier) performs exactly one lookup and no pause,   *)
(* and from its start to its completion changes only the records with that *)
(* identifier: the other records, the order and number of records and the  *)
(* batch-in-progress flag are left as they were.                           *)
(***************************************************************************)
C11_RefreshTouchesOnlyItsRecords ==
    /\ [][SingleStarts =>
            \E r \in BagToSet(single') :
                /\ single' = single (+) SetToBag({r})
                /\ RefreshFrame(r)]_vars
    /\ [][SingleSettles =>
            /\ single = single' (+) SetToBag({last'[1].resi})
            /\ RefreshFrame(last'[1].resi)]_vars

\* During a batch, a refresh of the second record is in flight while the
\* first record, with another identifier, holds its payload.
C11_Witness ==
    /\ isTracking
    /\ Len(resiList) = 2
    /\ resiList[1].resi # resiList[2].resi
    /\ HasData(resiList[1])
    /\ resiList[2].loading
    /\ BagIn(resiList[2].resi, single)

(***************************************************************************)
(* C13: a refreshOne lookup and the loop's lookup for the same identifier  *)
(* may be in flight together, and each completion overwrites the record:   *)
(* the record holds the outcome of the lookup that completed last.         *)
(***************************************************************************)
BothInFlight(r) ==
    /\ pc = "await"
    /\ newResiList[i].resi = r
    /\ BagIn(r, single)

C13_LastWriteWins ==
    [][((LoopSettles \/ SingleSettles)
        /\ \/ BothInFlight(last'[1].resi)
           \/ \E k \in DOMAIN resiList :
                /\ resiList[k].resi = last'[1].resi
                /\ ~resiList[k].loading) =>
        \A k \in DOMAIN resiList' :
            resiList'[k].resi = last'[1].resi =>
                Reflects(resiList'[k], last'[1].resp)]_vars

\* The refresh completed first and its failure is on the record, while the
\* loop's lookup for the same identifier is still in flight.
C13_Witness ==
    /\ pc = "await"
    /\ single = EmptyBag
    /\ last # None
    /\ last[1].resi = newResiList[i].resi
    /\ \E k \in DOMAIN resiList :
        /\ resiList[k].resi = newResiList[i].resi
        /\ ~resiList[k].loading
        /\ HasError(resiList[k])

(***************************************************************************)
(* C14: records that share an identifier receive every update keyed on it, *)
(* so they always hold the same data, error and loading values.            *)
(***************************************************************************)
C14_DuplicatesAgree ==
    \A j, k \in DOMAIN resiList :
        resiList[j].resi = resiList[k].resi =>
            /\ resiList[j].data = resiList[k].data
            /\ resiList[j].error = resiList[k].error
            /\ resiList[j].loading = resiList[k].loading

\* The loop's second lookup for a repeated identifier: both records are in
\* progress and both hold the payload of the first lookup.
C14_Witness ==
    /\ Len(resiList) = 2
    /\ resiList[1].resi = resiList[2].resi
    /\ pc = "await"
    /\ i = 2
    /\ resiList[1].loading /\ resiList[2].loading
    /\ HasData(resiList[1]) /\ HasData(resiList[2])

(***************************************************************************)
(* C16, as stated: a record with a lookup attempt in progress holds        *)
(* neither a result payload nor an error message.                          *)
(***************************************************************************)
C16_AttemptClearsBoth ==
    \A k \in DOMAIN resiList :
        resiList[k].loading =>
            (resiList[k].data = None /\ resiList[k].error = None)

(***************************************************************************)
(* C16, amended: starting a lookup attempt (the head of a loop iteration,  *)
(* or the start of refreshOne) sets loading and clears the error message   *)
(* of the records with the identifier and leaves their payload as it was;  *)
(* a record in progress holds no error message.                            *)
(***************************************************************************)
C16_AttemptClearsErrorOnly ==
    /\ [](\A k \in DOMAIN resiList :
            resiList[k].loading => resiList[k].error = None)
    /\ [][(LoopIssues /\ ~SubmitStarts) =>
            \A k \in DOMAIN resiList' :
                resiList'[k].resi = issued'[Len(issued')] =>
                    /\ resiList'[k].loading
                    /\ resiList'[k].error = None
                    /\ resiList'[k].data = resiList[k].data]_vars
    /\ [][SubmitStarts =>
            \A k \in DOMAIN resiList' :
                resiList'[k].resi = issued'[1] =>
                    /\ resiList'[k].loading
                    /\ resiList'[k].error = None
                    /\ resiList'[k].data = None]_vars
    /\ [][SingleStarts =>
            \A k \in DOMAIN resiList' :
                CopiesIn(resiList'[k].resi, single')
                    > CopiesIn(resiList'[k].resi, single) =>
                    /\ resiList'[k].loading
                    /\ resiList'[k].error = None
                    /\ resiList'[k].data = resiList[k].data]_vars

\* A refresh in flight on a record that still shows its earlier payload.
C16_Witness ==
    \E k \in DOMAIN resiList :
        /\ resiList[k].loading
        /\ HasData(resiList[k])
        /\ BagIn(resiList[k].resi, single)

(***************************************************************************)
(* C19: once the batch is empty it stays empty until the next accepted     *)
(* submit: the updates of a loop or of a refreshOne still running find no  *)
(* record and create none.                                                 *)
(***************************************************************************)
C19_ClearedStaysEmpty ==
    [][(resiList = <<>> /\ ~SubmitStarts) => resiList' = <<>>]_vars

\* The batch was cleared during the first lookup of a two-record loop; the
\* lookup settled, the loop pauses and a refresh is still in flight.
C19_Witness ==
    /\ resiList = <<>>
    /\ pc = "pause"
    /\ settled = 1
    /\ single # EmptyBag
    /\ last # None
    /\ last[1].resi = newResiList[1].resi

(***************************************************************************)
(* C20: at most one loop is active.  A loop starts only while the flag is  *)
(* false and no loop is running, the flag is false exactly when no loop is *)
(* running, and a running loop keeps the list it was started with.         *)
(***************************************************************************)
C20_OneLoopAtATime ==
    /\ [](~isTracking <=> ~Running)
    /\ [][(newResiList' # newResiList \/ i' < i \/ settled' < settled) =>
            /\ ~isTracking
            /\ ~Running
            /\ isTracking'
            /\ i' = 1
            /\ settled' = 0]_vars
    /\ [][isTracking => newResiList' = newResiList]_vars

\* A loop over the single record P is running although a lookup for P1 has
\* settled: P1 belonged to an earlier batch, whose loop had finished.
C20_Witness ==
    /\ isTracking
    /\ ResiOf(newResiList) = <<<<"P">>>>
    /\ settled = 0
    /\ last # None
    /\ last[1].resi = <<"P", "1">>

(***************************************************************************)
(* C12: when refreshOne is called on an identifier after an earlier        *)
(* refreshOne on it has completed, with nothing else in between, its       *)
(* completion leaves the records with that identifier holding exactly what *)
(* the second lookup returned: nothing of the first outcome remains.       *)
(***************************************************************************)
C12_SecondRefreshWins ==
    [][SingleSettles =>
        \A k \in DOMAIN resiList' :
            resiList'[k].resi = last'[1].resi =>
                /\ Reflects(resiList'[k], last'[1].resp)
                /\ resiList'[k].lastUpdated # None
                /\ HasData(resiList[k]) /\ IsFailure(last'[1].resp)
                      => resiList'[k].data = None
                /\ resiList[k].loading]_vars

\* A later refresh (stamp 2) has failed with status 404: the record holds its
\* message and no payload.
C12_Witness ==
    /\ single = EmptyBag
    /\ last # None
    /\ last[1].resp.status = 404
    /\ \E k \in DOMAIN resiList :
        /\ resiList[k].resi = last[1].resi
        /\ resiList[k].lastUpdated = Some(2)
        /\ resiList[k].error = Some("not found")
        /\ resiList[k].data = None

(***************************************************************************)
(* C18, as stated: the completion of a refreshOne lookup that was issued   *)
(* before the submit that created the current batch changes no record of   *)
(* that batch.                                                             *)
(***************************************************************************)
C18_StaleRefreshIgnored ==
    [][(SingleSettles /\ isTracking) => resiList' = resiList]_vars

\* A step in which the loop marks a record after the first one in progress.
NextMarked == issued' # issued /\ Len(issued') > 1

(***************************************************************************)
(* C17: a loop over N records starts its timer exactly N-1 times: once     *)
(* after the lookup of each record but the last has settled, whatever its  *)
(* outcome, and before the next record is marked in progress; after the    *)
(* last record it starts no timer and clears the flag in the same step.    *)
(***************************************************************************)
C17_PausesBetweenRecords ==
    /\ [](pc = "done" => pauses = Len(newResiList) - 1)
    /\ [](Running => pauses = settled)
    /\ [][LoopSettles =>
            IF i < Len(newResiList)
            THEN /\ pauses' = pauses + 1
                 /\ pc' = "pause"
                 /\ isTracking' = isTracking
            ELSE /\ pauses' = pauses
                 /\ pc' = "done"
                 /\ ~isTracking']_vars
    /\ [][NextMarked =>
            /\ pc = "pause"
            /\ pauses = i
            /\ pauses' = pauses]_vars

\* A loop over two records has ended: it paused once, after a lookup that
\* failed, and the flag is down.
C17_Witness ==
    /\ pc = "done"
    /\ ~isTracking
    /\ Len(newResiList) = 2
    /\ pauses = 1
    /\ Len(resiList) = 2
    /\ resiList[1].error # None
    /\ resiList[2].data # None

\* A step of exportToExcel that writes a sheet.
Exports == exported' # None /\ exported' # exported

\* The record holds a payload whose embedded status is 200.
HasPayload200(item) == item.data # None /\ item.data[1].status = 200

\* The record holds a payload with status 200 that carries the data object.
HasDetail200(item) == HasPayload200(item) /\ item.data[1].data # None

\* The row is the error row of the record: placeholders and the record's
\* error message or, without one, the default message.
ErrorRow(row, item) ==
    /\ row.penerima = Placeholder
    /\ row.statusTerakhir = Placeholder
    /\ row.pesanError # ""
    /\ row.pesanError = IF item.error # None THEN item.error[1] ELSE MsgNoData

(***************************************************************************)
(* C15, as stated: export writes one row per record of the batch, in batch *)
(* order, and leaves the batch alone; a row is an error row exactly when   *)
(* the record has no payload with status 200, and otherwise its error      *)
(* message is empty.                                                       *)
(***************************************************************************)
C15_ErrorRowIffNoPayload200 ==
    [][Exports =>
        /\ resiList' = resiList
        /\ Len(exported'[1]) = Len(resiList)
        /\ \A k \in DOMAIN resiList :
            /\ exported'[1][k].noResi = resiList[k].resi
            /\ ErrorRow(exported'[1][k], resiList[k])
                  <=> ~HasPayload200(resiList[k])
            /\ ~ErrorRow(exported'[1][k], resiList[k])
                  => exported'[1][k].pesanError = ""]_vars

(***************************************************************************)
(* C15, amended: export writes one row per record of the batch, in batch   *)
(* order (none for an empty batch), and leaves the batch alone; a row is   *)
(* an error row exactly when the record has no payload, or its payload     *)
(* has a status other than 200 or lacks the data object; every other row   *)
(* has an empty error message.                                             *)
(***************************************************************************)
C15_ErrorRowIffNoDetail200 ==
    [][Exports =>
        /\ resiList' = resiList
        /\ Len(exported'[1]) = Len(resiList)
        /\ \A k \in DOMAIN resiList :
            /\ exported'[1][k].noResi = resiList[k].resi
            /\ ErrorRow(exported'[1][k], resiList[k])
                  <=> ~HasDetail200(resiList[k])
            /\ ~ErrorRow(exported'[1][k], resiList[k])
                  => exported'[1][k].pesanError = ""]_vars

\* A sheet of two rows has been written: the first record holds a payload
\* with status 200 and no data object and has an error row with the default
\* message, the second has the row of its parcel.
C15_Witness ==
    /\ exported # None
    /\ Len(exported[1]) = 2
    /\ Len(resiList) = 2
    /\ HasPayload200(resiList[1])
    /\ resiList[1].data[1].data = None
    /\ exported[1][1].pesanError = MsgNoData
    /\ exported[1][1].penerima = Placeholder
    /\ HasDetail200(resiList[2])
    /\ exported[1][2].penerima = "Budi"
    /\ exported[1][2].pesanError = ""

\* A lookup for the identifier r is in flight: the one the loop awaits, or
\* one of trackSingleResi.
InFlight(r) ==
    \/ pc = "await" /\ newResiList[i].resi = r
    \/ r \in BagToSet(single)

\* Some record with the identifier r is in progress.
LoadingOf(r) ==
    \E k \in DOMAIN resiList : resiList[k].resi = r /\ resiList[k].loading

(***************************************************************************)
(* C21: whenever a record is in progress, a lookup for its identifier is   *)
(* in flight, from the loop or from refreshOne; so, every lookup           *)
(* resolving, no record stays in progress forever.                         *)
(***************************************************************************)
C21_LoadingHasLookup ==
    /\ [](\A k \in DOMAIN resiList :
            resiList[k].loading => InFlight(resiList[k].resi))
    /\ \A r \in Identifiers : LoadingOf(r) ~> ~LoadingOf(r)

\* A record is in progress on a refresh alone: the loop awaits the lookup of
\* another record.
C21_Witness ==
    /\ pc = "await"
    /\ \E k \in DOMAIN resiList :
        /\ resiList[k].loading
        /\ resiList[k].resi \in BagToSet(single)
        /\ newResiList[i].resi # resiList[k].resi

(***************************************************************************)
(* C22: in every reachable state the two counters partition the batch:     *)
(* successfulTrackings plus failedTrackings is the number of records and   *)
(* no record is counted in both; a record not yet looked up and a record   *)
(* holding a payload with status 201 are counted as failed.                *)
(***************************************************************************)
C22_CountersPartition ==
    /\ successfulTrackings + failedTrackings = Len(resiList)
    /\ \A k \in DOMAIN resiList :
        /\ ~(Successful(resiList[k]) /\ Failed(resiList[k]))
        /\ resiList[k].data = None /\ resiList[k].error = None
              => Failed(resiList[k])
        /\ resiList[k].data # None /\ resiList[k].data[1].status = 201
              => Failed(resiList[k])

\* The first record holds a payload with status 201, the second has not been
\* looked up: both are counted as failed.
C22_Witness ==
    /\ Len(resiList) = 2
    /\ resiList[1].data # None
    /\ resiList[1].data[1].status = 201
    /\ resiList[2].data = None
    /\ resiList[2].error = None
    /\ resiList[2].lastUpdated = None
    /\ successfulTrackings = 0
    /\ failedTrackings = 2

====
